---------------------------- MODULE Spec2Model ----------------------------
(***************************************************************************)
(* A model of the super-rentals-tutorial build pipeline:                   *)
(*   - the build run, main() of src/bin/generate.ts;                       *)
(*   - the screenshot directive: attr(), compile() and screenshot();       *)
(*   - the image wait of the browser program that compile() generates.     *)
(* Strings are sequences of one-character strings.                         *)
(***************************************************************************)
EXTENDS Integers, Sequences, FiniteSets, TLC

VARIABLES
    \* main() of generate.ts
    chapters,      \* what happens to each chapter globbed: "ok", "readErr", "processErr", "writeErr"
    mpc,           \* position of main()
    idx,           \* index of the chapter of the current loop iteration
    readSet,       \* chapters whose input was read
    processedSet,  \* chapters processor.process() resolved for
    writtenSet,    \* chapters whose output file was written
    exitCode,      \* -1 while running, then the exit status of the process
    logged,        \* console.error(error) was called
    \* attr()
    attrIn,        \* the string given to attr()
    attrOut,       \* what attr() did with it
    \* the image wait of the generated browser program
    imgs,          \* for each <img> of the page: "loading", "loaded" or "failed"
    ipc,           \* position of the browser program
    k,             \* index of the image the for loop is at
    promise,       \* the promise the loop awaits: "none", "pending", "resolved", "rejected"
    handlerOn,     \* the image whose onload/onerror settle the pending promise (0: none)
    outcome,       \* "running", "captured" (page.screenshot ran) or "rejected" (exit 1)
    \* screenshot()
    blocks,        \* the screenshot blocks of the run: each its document's basename, its args and its body
    cur,           \* index of the block screenshot() is called for
    pc,            \* position of screenshot()
    frame,         \* the locals of the call: namespace, dir, filename, path, script, size
    cpc,           \* position of the child process (node -) running the script
    executed,      \* number of the script's visit/wait statements the browser has run
    dirs,          \* directories mkdirp created
    files,         \* image files on disk: [path, by: the block that wrote it]
    paths,         \* the artifact path computed for each block so far
    nodes,         \* the node returned for each block so far
    err            \* the error screenshot() threw, "none" if none

mainVars == <<chapters, mpc, idx, readSet, processedSet, writtenSet, exitCode, logged>>
attrVars == <<attrIn, attrOut>>
imgVars  == <<imgs, ipc, k, promise, handlerOn, outcome>>
shotVars == <<blocks, cur, pc, frame, cpc, executed, dirs, files, paths, nodes, err>>
vars     == <<mainVars, attrVars, imgVars, shotVars>>

----------------------------------------------------------------------------
(* Bounds of the model *)

MaxChapters == 3
MaxLen == 3
MaxImgs == 3
MaxLines == 3
MaxPixels == 3

----------------------------------------------------------------------------
(* Strings *)

QUOT == "\""
BSL  == "\\"

RECURSIVE Concat(_)
\* the concatenation of a sequence of strings
Concat(ss) == IF ss = <<>> THEN <<>> ELSE Head(ss) \o Concat(Tail(ss))

StartsWith(s, p) == Len(s) >= Len(p) /\ SubSeq(s, 1, Len(p)) = p

\* the strings over alphabet of length at most n
StringsUpTo(alphabet, n) == UNION {[1..m -> alphabet] : m \in 0..n}

\* JSON.stringify of a string: quoted, with quotes and backslashes escaped
JsonChar(c) == IF c = QUOT THEN <<BSL, QUOT>> ELSE IF c = BSL THEN <<BSL, BSL>> ELSE <<c>>

JsonStringify(s) == <<QUOT>> \o Concat([i \in 1..Len(s) |-> JsonChar(s[i])]) \o <<QUOT>>

----------------------------------------------------------------------------
(* attr(): part_000 lines 31-46 *)

Ok(v)     == [ok |-> TRUE, val |-> v]
Raise(m)  == [ok |-> FALSE, val |-> m]

\* the regular expression /<>"/g: the three characters in a row
AttrPattern == <<"<", ">", QUOT>>

\* the replace callback: the switch on the matched text c
AttrCallback(c) ==
    CASE c = <<"<">>  -> Ok(<<"&", "l", "t", ";">>)
      [] c = <<">">>  -> Ok(<<"&", "g", "t", ";">>)
      [] c = <<QUOT>> -> Ok(<<"&", "q", "u", "o", "t", ";">>)
      [] OTHER        -> Raise("Unknown character")

RECURSIVE AttrReplace(_)
\* String(v).replace(AttrPattern, AttrCallback): every match, left to right;
\* the first callback that throws ends the replace
AttrReplace(s) ==
    IF s = <<>> THEN Ok(<<>>)
    ELSE IF StartsWith(s, AttrPattern)
    THEN LET r == AttrCallback(AttrPattern)
             rest == AttrReplace(SubSeq(s, Len(AttrPattern) + 1, Len(s)))
         IN  IF ~r.ok THEN r
             ELSE IF ~rest.ok THEN rest
             ELSE Ok(r.val \o rest.val)
    ELSE LET rest == AttrReplace(Tail(s))
         IN  IF ~rest.ok THEN rest ELSE Ok(<<Head(s)>> \o rest.val)

attr(v) ==
    LET escaped == AttrReplace(v)
    IN  IF escaped.ok THEN Ok(JsonStringify(escaped.val)) ELSE escaped

AttrAlphabet == {"<", ">", QUOT, "a"}

AttrInit ==
    /\ attrIn \in StringsUpTo(AttrAlphabet, MaxLen)
    /\ attrOut = [state |-> "none"]

AttrCall ==
    /\ attrOut.state = "none"
    /\ attrOut' = LET r == attr(attrIn)
                  IN  IF r.ok THEN [state |-> "returned", val |-> r.val]
                      ELSE [state |-> "threw", val |-> r.val]
    /\ UNCHANGED attrIn
    /\ UNCHANGED <<mainVars, imgVars, shotVars>>

----------------------------------------------------------------------------
(* main(): generate.ts lines 22-63 *)

Fates == {"ok", "readErr", "processErr", "writeErr"}

MainInit ==
    /\ chapters \in UNION {[1..n -> Fates] : n \in 0..MaxChapters}
    /\ mpc = "setup"
    /\ idx = 0
    /\ readSet = {}
    /\ processedSet = {}
    /\ writtenSet = {}
    /\ exitCode = -1
    /\ logged = FALSE

\* MainCatch without process.exit(1): the error is logged and the run ends with
\* status 0
MainCatchNoExit ==
    /\ mpc' = "exited"
    /\ logged' = TRUE
    /\ exitCode' = 0

\* main().catch(error => { console.error(error); process.exit(1); })
MainCatch ==
    /\ mpc' = "exited"
    /\ logged' = TRUE
    /\ exitCode' = 1

\* the for loop's head: the next chapter, or the end of main()
MainLoopHead(i) ==
    IF i < Len(chapters)
    THEN /\ idx' = i + 1
         /\ mpc' = "read"
         /\ UNCHANGED <<exitCode, logged>>
    ELSE /\ idx' = i
         /\ mpc' = "exited"
         /\ exitCode' = 0
         /\ UNCHANGED logged

\* lines 28-34: ncp, mkdirp, mkdirp, glob; each may reject
MainSetup ==
    /\ mpc = "setup"
    /\ \/ MainLoopHead(0)
       \/ MainCatch /\ UNCHANGED idx
    /\ UNCHANGED <<chapters, readSet, processedSet, writtenSet>>
    /\ UNCHANGED <<attrVars, imgVars, shotVars>>

\* line 52: readFile
MainRead ==
    /\ mpc = "read"
    /\ IF chapters[idx] = "readErr"
       THEN MainCatch /\ UNCHANGED readSet
       ELSE /\ readSet' = readSet \cup {idx}
            /\ mpc' = "process"
            /\ UNCHANGED <<exitCode, logged>>
    /\ UNCHANGED <<chapters, idx, processedSet, writtenSet>>
    /\ UNCHANGED <<attrVars, imgVars, shotVars>>

\* line 54: processor.process
MainProcess ==
    /\ mpc = "process"
    /\ IF chapters[idx] = "processErr"
       THEN MainCatch /\ UNCHANGED processedSet
       ELSE /\ processedSet' = processedSet \cup {idx}
            /\ mpc' = "write"
            /\ UNCHANGED <<exitCode, logged>>
    /\ UNCHANGED <<chapters, idx, readSet, writtenSet>>
    /\ UNCHANGED <<attrVars, imgVars, shotVars>>

\* line 56: writeFile, then the loop's head
MainWrite ==
    /\ mpc = "write"
    /\ IF chapters[idx] = "writeErr"
       THEN MainCatch /\ UNCHANGED <<writtenSet, idx>>
       ELSE /\ writtenSet' = writtenSet \cup {idx}
            /\ MainLoopHead(idx)
    /\ UNCHANGED <<chapters, readSet, processedSet>>
    /\ UNCHANGED <<attrVars, imgVars, shotVars>>

----------------------------------------------------------------------------
(* The image wait of the generated browser program: part_000 lines 109-126 *)

ImgStates == {"loading", "loaded", "failed"}

ImgInit ==
    /\ imgs \in UNION {[1..n -> ImgStates] : n \in 0..MaxImgs}
    /\ ipc = "loop"
    /\ k = 1
    /\ promise = "none"
    /\ handlerOn = 0
    /\ outcome = "running"

\* img.complete: the browser is done with the image, loaded or broken
Complete(i) == imgs[i] # "loading"

\* img.naturalHeight === 0: no decoded picture (still loading, or broken)
NaturalHeightZero(i) == imgs[i] # "loaded"

\* line 111
MustAwait(i) == ~Complete(i) \/ NaturalHeightZero(i)

\* lines 110-117: one iteration of for (let img of imgs), up to its await
ImgLoopStep ==
    /\ ipc = "loop"
    /\ IF k > Len(imgs)
       THEN /\ ipc' = "screenshot"
            /\ UNCHANGED <<k, promise, handlerOn>>
       ELSE IF MustAwait(k)
       THEN /\ promise' = "pending"
            /\ handlerOn' = k
            /\ ipc' = "await"
            /\ UNCHANGED k
       ELSE /\ k' = k + 1
            /\ UNCHANGED <<ipc, promise, handlerOn>>
    /\ UNCHANGED <<imgs, outcome>>
    /\ UNCHANGED <<mainVars, attrVars, shotVars>>

\* the load event of image i: img.onload = resolve, when set
ImgLoad(i) ==
    /\ imgs[i] = "loading"
    /\ imgs' = [imgs EXCEPT ![i] = "loaded"]
    /\ promise' = IF handlerOn = i /\ promise = "pending" THEN "resolved" ELSE promise
    /\ UNCHANGED <<ipc, k, handlerOn, outcome>>
    /\ UNCHANGED <<mainVars, attrVars, shotVars>>

\* the error event of image i: img.onerror = () => reject(...), when set
ImgError(i) ==
    /\ imgs[i] = "loading"
    /\ imgs' = [imgs EXCEPT ![i] = "failed"]
    /\ promise' = IF handlerOn = i /\ promise = "pending" THEN "rejected" ELSE promise
    /\ UNCHANGED <<ipc, k, handlerOn, outcome>>
    /\ UNCHANGED <<mainVars, attrVars, shotVars>>

\* the await of line 112 resumes: the next image, or the rejection reaches
\* main().catch, which exits with status 1
ImgResume ==
    /\ ipc = "await"
    /\ promise \in {"resolved", "rejected"}
    /\ IF promise = "resolved"
       THEN /\ k' = k + 1
            /\ ipc' = "loop"
            /\ UNCHANGED outcome
       ELSE /\ ipc' = "exited"
            /\ outcome' = "rejected"
            /\ UNCHANGED k
    /\ promise' = "none"
    /\ UNCHANGED <<imgs, handlerOn>>
    /\ UNCHANGED <<mainVars, attrVars, shotVars>>

\* line 119: page.screenshot
ImgScreenshot ==
    /\ ipc = "screenshot"
    /\ ipc' = "exited"
    /\ outcome' = "captured"
    /\ UNCHANGED <<imgs, k, promise, handlerOn>>
    /\ UNCHANGED <<mainVars, attrVars, shotVars>>

----------------------------------------------------------------------------
(* path: basename, extname and join of Node's posix path module, as imported
   on part_000 line 5 *)

RECURSIVE FirstIndex(_, _, _)
\* the first index >= i of s whose character is in cs, or Len(s) + 1
FirstIndex(s, cs, i) ==
    IF i > Len(s) THEN Len(s) + 1
    ELSE IF s[i] \in cs THEN i
    ELSE FirstIndex(s, cs, i + 1)

RECURSIVE SplitChar(_, _)
\* s.split(c) for a one-character separator c
SplitChar(s, c) ==
    LET i == FirstIndex(s, {c}, 1)
    IN  IF i > Len(s) THEN <<s>>
        ELSE <<SubSeq(s, 1, i - 1)>> \o SplitChar(SubSeq(s, i + 1, Len(s)), c)

EndsWith(s, e) == Len(s) >= Len(e) /\ SubSeq(s, Len(s) - Len(e) + 1, Len(s)) = e

RECURSIVE LastIndexOf(_, _, _)
\* the last index <= i of s holding character c, or 0
LastIndexOf(s, c, i) ==
    IF i = 0 THEN 0
    ELSE IF s[i] = c THEN i
    ELSE LastIndexOf(s, c, i - 1)

\* the last component of a path, trailing slashes ignored
LastComponent(p) ==
    LET segs == SelectSeq(SplitChar(p, "/"), LAMBDA x : x # <<>>)
    IN  IF segs = <<>> THEN <<>> ELSE segs[Len(segs)]

\* path.extname(p): from the last dot of the last component, unless that dot
\* starts the component or the component is ".."
extname(p) ==
    LET c == LastComponent(p)
        d == LastIndexOf(c, ".", Len(c))
    IN  IF d = 0 \/ d = 1 \/ c = <<".", ".">> THEN <<>>
        ELSE SubSeq(c, d, Len(c))

\* path.basename(p, ext): the last component, without ext when it ends with
\* ext and is more than ext
basename(p, ext) ==
    LET c == LastComponent(p)
    IN  IF ext # <<>> /\ Len(ext) <= Len(p)
        THEN IF ext = p THEN <<>>
             ELSE IF EndsWith(c, ext) /\ c # ext
             THEN SubSeq(c, 1, Len(c) - Len(ext))
             ELSE c
        ELSE c

RECURSIVE JoinWith(_, _)
\* segs.join(sep)
JoinWith(segs, sep) ==
    IF segs = <<>> THEN <<>>
    ELSE IF Len(segs) = 1 THEN segs[1]
    ELSE segs[1] \o sep \o JoinWith(Tail(segs), sep)

RECURSIVE NormSegs(_, _, _)
\* the segments of a normalized path: "" and "." dropped, ".." resolved
NormSegs(segs, acc, isAbs) ==
    IF segs = <<>> THEN acc
    ELSE LET s == Head(segs)
         IN  IF s = <<>> \/ s = <<".">> THEN NormSegs(Tail(segs), acc, isAbs)
             ELSE IF s = <<".", ".">>
             THEN IF acc # <<>> /\ acc[Len(acc)] # <<".", ".">>
                  THEN NormSegs(Tail(segs), SubSeq(acc, 1, Len(acc) - 1), isAbs)
                  ELSE IF isAbs THEN NormSegs(Tail(segs), acc, isAbs)
                  ELSE NormSegs(Tail(segs), Append(acc, s), isAbs)
             ELSE NormSegs(Tail(segs), Append(acc, s), isAbs)

\* path.normalize(p)
normalize(p) ==
    IF p = <<>> THEN <<".">>
    ELSE LET isAbs == p[1] = "/"
             trailing == p[Len(p)] = "/"
             inner == JoinWith(NormSegs(SplitChar(p, "/"), <<>>, isAbs), <<"/">>)
             body == IF inner = <<>> THEN (IF isAbs THEN <<>> ELSE <<".">>)
                     ELSE IF trailing THEN inner \o <<"/">> ELSE inner
         IN  IF isAbs THEN <<"/">> \o body ELSE body

\* path.join(...parts): the non-empty parts joined by "/" and normalized
join(parts) ==
    LET joined == JoinWith(SelectSeq(parts, LAMBDA x : x # <<>>), <<"/">>)
    IN  IF joined = <<>> THEN <<".">> ELSE normalize(joined)

----------------------------------------------------------------------------
(* compile(): part_000 lines 48-131 *)

\* js(v): JSON.stringify(v); undefined prints as undefined in the template
Undefined == <<"u", "n", "d", "e", "f", "i", "n", "e", "d">>
js(v) == JsonStringify(v)

\* the characters \s matches
WhiteSpace == {" ", "\t", "\r", "\n"}

RECURSIVE FirstNonSpace(_, _)
FirstNonSpace(s, i) ==
    IF i > Len(s) THEN Len(s) + 1
    ELSE IF s[i] \notin WhiteSpace THEN i
    ELSE FirstNonSpace(s, i + 1)

RECURSIVE SplitWS(_)
\* s.split(/\s+/): the pieces between the runs of whitespace
SplitWS(s) ==
    LET i == FirstIndex(s, WhiteSpace, 1)
    IN  IF i > Len(s) THEN <<s>>
        ELSE <<SubSeq(s, 1, i - 1)>> \o SplitWS(SubSeq(s, FirstNonSpace(s, i), Len(s)))

\* s.split(/\s+/, 2): at most the first two pieces (line 93)
SplitStep(step) ==
    LET all == SplitWS(step)
    IN  SubSeq(all, 1, IF Len(all) < 2 THEN Len(all) ELSE 2)

VISIT == <<"v", "i", "s", "i", "t">>
WAIT  == <<"w", "a", "i", "t">>

\* lines 93-104: the statement pushed for one non-empty line, or the throw
CompileStep(step) ==
    LET parts == SplitStep(step)
        action == parts[1]
        arg == IF Len(parts) >= 2 THEN js(parts[2]) ELSE Undefined
    IN  CASE action = VISIT -> Ok([fn |-> "goto", arg |-> arg])
          [] action = WAIT  -> Ok([fn |-> "waitForSelector", arg |-> arg])
          [] OTHER          -> Raise("Unknown action")

RECURSIVE CompileStepsNoSkip(_)
\* CompileSteps without the continue of lines 89-91: an empty line is compiled
\* like any other
CompileStepsNoSkip(lines) ==
    IF lines = <<>> THEN Ok(<<>>)
    ELSE LET one == CompileStep(Head(lines))
         IN  IF ~one.ok THEN one
             ELSE LET rest == CompileStepsNoSkip(Tail(lines))
                  IN  IF ~rest.ok THEN rest ELSE Ok(<<one.val>> \o rest.val)

RECURSIVE CompileSteps(_)
\* lines 88-105: the loop over steps.split('\n'); the first throw ends it
CompileSteps(lines) ==
    IF lines = <<>> THEN Ok(<<>>)
    ELSE IF Head(lines) = <<>> THEN CompileSteps(Tail(lines))
    ELSE LET one == CompileStep(Head(lines))
         IN  IF ~one.ok THEN one
             ELSE LET rest == CompileSteps(Tail(lines))
                  IN  IF ~rest.ok THEN rest ELSE Ok(<<one.val>> \o rest.val)

\* height || 100 (line 53)
DefaultViewportHeight == 100

\* lines 51-55
Viewport(args) ==
    [width |-> args.width,
     height |-> IF args.height = 0 THEN DefaultViewportHeight ELSE args.height,
     deviceScaleFactor |-> IF args.retina THEN 2 ELSE 1]

\* lines 59-76
ScreenshotOptions(path, args) ==
    IF args.height = 0
    THEN [path |-> path, fullPage |-> TRUE, clip |-> <<>>]
    ELSE [path |-> path, fullPage |-> FALSE,
          clip |-> <<args.width, args.height, args.x, args.y>>]

\* the script: its viewport, its statements and its screenshot options
compile(steps, path, args) ==
    LET body == CompileSteps(SplitChar(steps, "\n"))
    IN  IF ~body.ok THEN body
        ELSE Ok([viewport |-> Viewport(args),
                 steps |-> body.val,
                 options |-> ScreenshotOptions(path, args)])

----------------------------------------------------------------------------
(* screenshot(): part_000 lines 133-197 *)

RECURSIVE NumToString(_)
\* String(n) for an integer n >= 0
NumToString(n) ==
    LET digit == <<"0", "1", "2", "3", "4", "5", "6", "7", "8", "9">>
    IN  IF n < 10 THEN <<digit[n + 1]>>
        ELSE NumToString(n \div 10) \o <<digit[(n % 10) + 1]>>

MD  == <<".", "m", "d">>
PNG == <<".", "p", "n", "g">>
AT2X_PNG == <<"@", "2", "x", ".", "p", "n", "g">>
SCREENSHOTS == <<"s", "c", "r", "e", "e", "n", "s", "h", "o", "t", "s">>

\* options.assets: join(project, 'dist', 'assets') of generate.ts line 24
AssetsDir == <<"/", "p", "/", "d", "i", "s", "t", "/", "a", "s", "s", "e", "t", "s">>

\* FailedAssert without the assert of line 147
FailedAssertNoOffset(b) ==
    IF b.basename = <<>> THEN "unknown basename"
    ELSE IF extname(b.filename) # PNG THEN "filename must have .png extnsion"
    ELSE IF ~(b.width > 0) THEN "width must be positive"
    ELSE "none"

\* lines 144-147: the first assert that fails, "none" if none
FailedAssert(b) ==
    IF b.basename = <<>> THEN "unknown basename"
    ELSE IF extname(b.filename) # PNG THEN "filename must have .png extnsion"
    ELSE IF ~(b.width > 0) THEN "width must be positive"
    ELSE IF ~(b.height # 0 \/ (b.x = 0 /\ b.y = 0)) THEN "cannot specify x and y for fullscreen screenshots"
    ELSE "none"

\* line 149
Namespace(b) == basename(b.basename, MD)

\* line 150
Dir(b) == join(<<AssetsDir, SCREENSHOTS, Namespace(b)>>)

\* lines 152-156
Filename(b) == IF b.retina THEN basename(b.filename, PNG) \o AT2X_PNG ELSE b.filename

\* line 160
Path(dir, filename) == join(<<dir, filename>>)

\* line 173
Src(namespace, filename) ==
    <<"/">> \o SCREENSHOTS \o <<"/">> \o namespace \o <<"/">> \o filename

\* lines 179-180
DisplaySize(pixels) == pixels \div 2

NoFrame ==
    [namespace |-> <<>>, dir |-> <<>>, filename |-> <<>>, path |-> <<>>,
     compiled |-> FALSE,
     script |-> [viewport |-> <<>>, steps |-> <<>>, options |-> <<>>],
     size |-> [width |-> 0, height |-> 0]]

\* screenshot() throws: the document's processing, and the run, end
ShotThrow(e) ==
    /\ pc' = "aborted"
    /\ err' = e

\* lines 134-156: parseArgs, the asserts, namespace, dir and filename
ShotValidate ==
    /\ pc = "validate"
    /\ LET b == blocks[cur]
           failed == FailedAssert(b)
       IN  IF failed # "none"
           THEN /\ ShotThrow(failed)
                /\ UNCHANGED frame
           ELSE /\ frame' = [frame EXCEPT !.namespace = Namespace(b),
                                          !.dir = Dir(b),
                                          !.filename = Filename(b)]
                /\ pc' = "mkdirp"
                /\ UNCHANGED err
    /\ UNCHANGED <<blocks, cur, cpc, executed, dirs, files, paths, nodes>>
    /\ UNCHANGED <<mainVars, attrVars, imgVars>>

\* line 158: await mkdirp(dir), which may reject
ShotMkdirp ==
    /\ pc = "mkdirp"
    /\ \/ /\ dirs' = dirs \cup {frame.dir}
          /\ pc' = "compile"
          /\ UNCHANGED err
       \/ /\ ShotThrow("mkdirp")
          /\ UNCHANGED dirs
    /\ UNCHANGED <<blocks, cur, frame, cpc, executed, files, paths, nodes>>
    /\ UNCHANGED <<mainVars, attrVars, imgVars>>

\* lines 160-164: path, and compile(node.value, path, args)
ShotCompile ==
    /\ pc = "compile"
    /\ LET b == blocks[cur]
           path == Path(frame.dir, frame.filename)
           script == compile(b.value, path, b)
       IN  /\ paths' = Append(paths, path)
           /\ IF script.ok
              THEN /\ frame' = [frame EXCEPT !.path = path, !.compiled = TRUE,
                                             !.script = script.val]
                   /\ pc' = "exec"
                   /\ UNCHANGED err
              ELSE /\ frame' = [frame EXCEPT !.path = path]
                   /\ ShotThrow(script.val)
    /\ UNCHANGED <<blocks, cur, cpc, executed, dirs, files, nodes>>
    /\ UNCHANGED <<mainVars, attrVars, imgVars>>

\* lines 166-169: exec(`node -`), the script written to its stdin
ShotExec ==
    /\ pc = "exec"
    /\ cpc' = "launch"
    /\ pc' = "await"
    /\ UNCHANGED <<blocks, cur, frame, executed, dirs, files, paths, nodes, err>>
    /\ UNCHANGED <<mainVars, attrVars, imgVars>>

\* script lines 82-84: launch, newPage, setViewport
ChildLaunch ==
    /\ cpc = "launch"
    /\ cpc' = "steps"
    /\ UNCHANGED <<blocks, cur, pc, frame, executed, dirs, files, paths, nodes, err>>
    /\ UNCHANGED <<mainVars, attrVars, imgVars>>

\* the script's next page.goto or page.waitForSelector statement
ChildStep ==
    /\ cpc = "steps"
    /\ IF executed < Len(frame.script.steps)
       THEN /\ executed' = executed + 1
            /\ UNCHANGED cpc
       ELSE /\ cpc' = "imgs"
            /\ UNCHANGED executed
    /\ UNCHANGED <<blocks, cur, pc, frame, dirs, files, paths, nodes, err>>
    /\ UNCHANGED <<mainVars, attrVars, imgVars>>

\* script lines 109-118: the wait for the images resolves
ChildImgs ==
    /\ cpc = "imgs"
    /\ cpc' = "screenshot"
    /\ UNCHANGED <<blocks, cur, pc, frame, executed, dirs, files, paths, nodes, err>>
    /\ UNCHANGED <<mainVars, attrVars, imgVars>>

\* script line 119: page.screenshot(options) writes the file at options.path
ChildScreenshot ==
    /\ cpc = "screenshot"
    /\ files' = {f \in files : f.path # frame.script.options.path}
                    \cup {[path |-> frame.script.options.path, by |-> cur]}
    /\ cpc' = "close"
    /\ UNCHANGED <<blocks, cur, pc, frame, executed, dirs, paths, nodes, err>>
    /\ UNCHANGED <<mainVars, attrVars, imgVars>>

\* script line 120: browser.close(), then the process ends with status 0
ChildClose ==
    /\ cpc = "close"
    /\ cpc' = "exit0"
    /\ UNCHANGED <<blocks, cur, pc, frame, executed, dirs, files, paths, nodes, err>>
    /\ UNCHANGED <<mainVars, attrVars, imgVars>>

\* script lines 123-126: any awaited call of the script rejects (the launch, a
\* navigation, a selector's timeout, an image's error, the screenshot, the
\* close): main().catch exits with status 1
ChildFail ==
    /\ cpc \in {"launch", "steps", "imgs", "screenshot", "close"}
    /\ cpc' = "exit1"
    /\ UNCHANGED <<blocks, cur, pc, frame, executed, dirs, files, paths, nodes, err>>
    /\ UNCHANGED <<mainVars, attrVars, imgVars>>

\* line 171: await p, which rejects on a non-zero exit
ShotAwait ==
    /\ pc = "await"
    /\ cpc \in {"exit0", "exit1"}
    /\ IF cpc = "exit0"
       THEN /\ pc' = IF blocks[cur].retina THEN "imageSize" ELSE "return"
            /\ UNCHANGED err
       ELSE ShotThrow("exec")
    /\ UNCHANGED <<blocks, cur, frame, cpc, executed, dirs, files, paths, nodes>>
    /\ UNCHANGED <<mainVars, attrVars, imgVars>>

\* line 178: await imageSize(path): the pixel size of the file, or a rejection
ShotImageSize ==
    /\ pc = "imageSize"
    /\ \/ \E w \in 1..MaxPixels, h \in 1..MaxPixels :
              /\ frame' = [frame EXCEPT !.size = [width |-> w, height |-> h]]
              /\ pc' = "return"
              /\ UNCHANGED err
       \/ /\ ShotThrow("imageSize")
          /\ UNCHANGED frame
    /\ UNCHANGED <<blocks, cur, cpc, executed, dirs, files, paths, nodes>>
    /\ UNCHANGED <<mainVars, attrVars, imgVars>>

\* lines 182-187: the html node; a throw of attr() is the call's throw
HtmlNode(src, alt, width, height) ==
    LET a == <<attr(src), attr(alt), attr(NumToString(width)), attr(NumToString(height))>>
    IN  IF \E i \in 1..4 : ~a[i].ok
        THEN Raise("Unknown character")
        ELSE Ok([type |-> "html", src |-> a[1].val, alt |-> a[2].val,
                 width |-> a[3].val, height |-> a[4].val])

\* lines 189-195
ImageNode(src, alt) == Ok([type |-> "image", url |-> src, alt |-> alt])

\* lines 173-196: the node screenshot() returns
ResultNode(b, f) ==
    LET src == Src(f.namespace, f.filename)
    IN  IF b.retina
        THEN HtmlNode(src, b.alt, DisplaySize(f.size.width), DisplaySize(f.size.height))
        ELSE ImageNode(src, b.alt)

\* lines 173-196, and the walker's next screenshot block
ShotReturn ==
    /\ pc = "return"
    /\ LET node == ResultNode(blocks[cur], frame)
       IN  IF ~node.ok
           THEN /\ ShotThrow(node.val)
                /\ UNCHANGED <<nodes, cur, frame, cpc, executed>>
           ELSE /\ nodes' = Append(nodes, node.val)
                /\ UNCHANGED err
                /\ IF cur < Len(blocks)
                   THEN /\ cur' = cur + 1
                        /\ pc' = "validate"
                        /\ frame' = NoFrame
                        /\ cpc' = "none"
                        /\ executed' = 0
                   ELSE /\ pc' = "done"
                        /\ UNCHANGED <<cur, frame, cpc, executed>>
    /\ UNCHANGED <<blocks, dirs, files, paths>>
    /\ UNCHANGED <<mainVars, attrVars, imgVars>>

ShotNext ==
    \/ ShotValidate
    \/ ShotMkdirp
    \/ ShotCompile
    \/ ShotExec
    \/ ChildLaunch
    \/ ChildStep
    \/ ChildImgs
    \/ ChildScreenshot
    \/ ChildClose
    \/ ChildFail
    \/ ShotAwait
    \/ ShotImageSize
    \/ ShotReturn

----------------------------------------------------------------------------
(* The inputs the specifications draw from *)

BASE_A_MD == <<"a", ".", "m", "d">>
BASE_A    == <<"a">>
BASE_B_MD == <<"b", ".", "m", "d">>

FILE_S   == <<"s", ".", "p", "n", "g">>
FILE_T   == <<"t", ".", "p", "n", "g">>
FILE_SUB == <<"d", "/", "s", ".", "p", "n", "g">>
FILE_UP  == <<".", ".", "/", "b", "/", "s", ".", "p", "n", "g">>
FILE_JPG == <<"s", ".", "j", "p", "g">>
FILE_DOT == <<".", "p", "n", "g">>

ALT_PLAIN == <<"A">>
ALT_TAG   == <<"<", "R", ">">>
ALT_ALL   == <<"<", ">", QUOT>>

LINE_VISIT == <<"v", "i", "s", "i", "t", " ", "u">>
LINE_WAIT  == <<"w", "a", "i", "t", " ", "#", "k">>
LINE_DESC  == <<"w", "a", "i", "t", " ", " ", ".", "r", " ", "l", "i">>
LINE_CLICK == <<"c", "l", "i", "c", "k", " ", "#", "k">>
LINE_EMPTY == <<>>
LINE_BLANK == <<" ">>

Lines == {LINE_VISIT, LINE_WAIT, LINE_DESC, LINE_CLICK, LINE_EMPTY, LINE_BLANK}

\* a body: its lines joined by "\n", with or without a last "\n"
Body(lines, trailing) ==
    JoinWith(lines, <<"\n">>) \o (IF trailing THEN <<"\n">> ELSE <<>>)

BODY_OK      == Body(<<LINE_VISIT, LINE_WAIT>>, TRUE)
BODY_UNKNOWN == Body(<<LINE_VISIT, LINE_CLICK>>, TRUE)

MainIdle ==
    /\ chapters = <<>>
    /\ mpc = "idle"
    /\ idx = 0
    /\ readSet = {}
    /\ processedSet = {}
    /\ writtenSet = {}
    /\ exitCode = -1
    /\ logged = FALSE

AttrIdle ==
    /\ attrIn = <<>>
    /\ attrOut = [state |-> "idle"]

ImgIdle ==
    /\ imgs = <<>>
    /\ ipc = "idle"
    /\ k = 1
    /\ promise = "none"
    /\ handlerOn = 0
    /\ outcome = "idle"

ShotStart ==
    /\ cur = 1
    /\ pc = "validate"
    /\ frame = NoFrame
    /\ cpc = "none"
    /\ executed = 0
    /\ dirs = {}
    /\ files = {}
    /\ paths = <<>>
    /\ nodes = <<>>
    /\ err = "none"

ShotIdle ==
    /\ blocks = <<>>
    /\ cur = 1
    /\ pc = "idle"
    /\ frame = NoFrame
    /\ cpc = "none"
    /\ executed = 0
    /\ dirs = {}
    /\ files = {}
    /\ paths = <<>>
    /\ nodes = <<>>
    /\ err = "none"

\* one screenshot block, its arguments valid or not
ShotInit ==
    /\ blocks \in {<<b>> : b \in
          [basename : {<<>>, BASE_A_MD, BASE_A},
           filename : {FILE_S, FILE_SUB, FILE_JPG, FILE_DOT},
           alt : {ALT_PLAIN, ALT_TAG, ALT_ALL},
           width : {0, 1024},
           height : {0, 512},
           x : {0, 5},
           y : {0, 5},
           retina : BOOLEAN,
           value : {BODY_OK, BODY_UNKNOWN}]}
    /\ ShotStart

\* one screenshot block with valid arguments and any body of at most MaxLines lines
CompileInit ==
    /\ blocks \in {<<b>> : b \in
          [basename : {BASE_A_MD},
           filename : {FILE_S},
           alt : {ALT_PLAIN},
           width : {1024},
           height : {0},
           x : {0},
           y : {0},
           retina : BOOLEAN,
           value : {Body(ls, t) : ls \in UNION {[1..n -> Lines] : n \in 0..MaxLines},
                                  t \in BOOLEAN}]}
    /\ ShotStart

\* two screenshot blocks with valid arguments, of documents of one run
TwoDocsInit ==
    /\ blocks \in {<<b1, b2>> : b1, b2 \in
          [basename : {BASE_A_MD, BASE_A, BASE_B_MD},
           filename : {FILE_S, FILE_T, FILE_UP},
           alt : {ALT_PLAIN},
           width : {1024},
           height : {0},
           x : {0},
           y : {0},
           retina : BOOLEAN,
           value : {BODY_OK}]}
    /\ ShotStart

----------------------------------------------------------------------------
(* The specifications *)

MainNext ==
    \/ MainSetup
    \/ MainRead
    \/ MainProcess
    \/ MainWrite

AttrNext == AttrCall

ImgNext ==
    \/ ImgLoopStep
    \/ \E i \in DOMAIN imgs : ImgLoad(i)
    \/ \E i \in DOMAIN imgs : ImgError(i)
    \/ ImgResume
    \/ ImgScreenshot

MainSpecInit == MainInit /\ AttrIdle /\ ImgIdle /\ ShotIdle
MainSpec == MainSpecInit /\ [][MainNext]_vars

AttrSpecInit == AttrInit /\ MainIdle /\ ImgIdle /\ ShotIdle
AttrSpec == AttrSpecInit /\ [][AttrNext]_vars

ImgSpecInit == ImgInit /\ MainIdle /\ AttrIdle /\ ShotIdle
ImgSpec == ImgSpecInit /\ [][ImgNext]_vars

Init == ShotInit /\ MainIdle /\ AttrIdle /\ ImgIdle
Next == ShotNext
Spec == Init /\ [][Next]_vars

CompileSpecInit == CompileInit /\ MainIdle /\ AttrIdle /\ ImgIdle
CompileSpec == CompileSpecInit /\ [][ShotNext]_vars

TwoDocsSpecInit == TwoDocsInit /\ MainIdle /\ AttrIdle /\ ImgIdle
TwoDocsSpec == TwoDocsSpecInit /\ [][ShotNext]_vars

----------------------------------------------------------------------------
(* The claims *)

\* C1: in the build run, a chapter whose processing raises is never written,
\* no later chapter is read, processed or written, the run then ends logged
\* with status 1, and it ends with status 0 only when every chapter was
\* processed and written.
C1_ErrorAbortsRun ==
    /\ \A i \in DOMAIN chapters :
          chapters[i] = "processErr" =>
             /\ i \notin writtenSet
             /\ \A j \in DOMAIN chapters :
                   j > i => j \notin (readSet \cup processedSet \cup writtenSet)
             /\ (i \in readSet /\ mpc = "exited") => (exitCode = 1 /\ logged)
    /\ exitCode = 0 =>
          /\ processedSet = DOMAIN chapters
          /\ writtenSet = DOMAIN chapters
    /\ mpc = "exited" => exitCode \in {0, 1}

\* the second of three chapters raised in processing and the run has ended
C1_Witness ==
    /\ Len(chapters) = 3
    /\ chapters[2] = "processErr"
    /\ mpc = "exited"
    /\ writtenSet = {1}
    /\ readSet = {1, 2}

\* the arguments of block b are invalid, in the claim's words
ArgsInvalid(b) ==
    \/ b.basename = <<>>
    \/ extname(b.filename) # PNG
    \/ b.width <= 0
    \/ (b.height = 0 /\ (b.x # 0 \/ b.y # 0))

\* C2: a screenshot block with invalid arguments fails before any side
\* effect: no directory is created, no script compiled, no process spawned.
C2_InvalidArgsNoSideEffect ==
    ArgsInvalid(blocks[cur]) =>
       /\ dirs = {}
       /\ files = {}
       /\ ~frame.compiled
       /\ cpc = "none"
       /\ pc \in {"validate", "aborted"}
       /\ pc = "aborted" => err \notin {"none", "mkdirp", "exec", "imageSize"}

\* a full-page block with an offset has been refused
C2_Witness ==
    LET b == blocks[cur]
    IN  /\ b.basename # <<>> /\ extname(b.filename) = PNG /\ b.width > 0
        /\ b.height = 0 /\ b.x # 0
        /\ pc = "aborted"
        /\ err = "cannot specify x and y for fullscreen screenshots"

\* the non-empty lines of a body
NonEmptyLines(value) == SelectSeq(SplitChar(value, "\n"), LAMBDA l : l # <<>>)

\* the verb of a line: what precedes its first whitespace
Verb(l) == SubSeq(l, 1, FirstIndex(l, WhiteSpace, 1) - 1)

\* what follows the verb of a line and the whitespace after it
Argument(l) == SubSeq(l, FirstNonSpace(l, FirstIndex(l, WhiteSpace, 1)), Len(l))

HasUnknownVerb(value) ==
    \E i \in 1..Len(NonEmptyLines(value)) : Verb(NonEmptyLines(value)[i]) \notin {VISIT, WAIT}

\* C3: compile() emits one statement per non-empty line, in the lines' order,
\* a goto for visit and a waitForSelector for wait; with a line of any other
\* verb nothing is compiled, no process is spawned and no statement is run.
C3_OneStepPerLine ==
    LET value == blocks[cur].value
        ls == NonEmptyLines(value)
    IN  /\ HasUnknownVerb(value) =>
              /\ ~frame.compiled
              /\ cpc = "none"
              /\ executed = 0
              /\ pc \in {"validate", "mkdirp", "compile", "aborted"}
        /\ (~HasUnknownVerb(value) /\ pc \notin {"validate", "mkdirp", "compile"}
               /\ err # "mkdirp") =>
              /\ frame.compiled
              /\ Len(frame.script.steps) = Len(ls)
              /\ \A i \in 1..Len(ls) :
                    frame.script.steps[i].fn =
                       IF Verb(ls[i]) = VISIT THEN "goto" ELSE "waitForSelector"
        /\ executed <= Len(frame.script.steps)

\* the body "visit u\nwait #k\n" was compiled to two statements and both ran
C3_Witness ==
    /\ blocks[cur].value = BODY_OK
    /\ frame.compiled
    /\ Len(frame.script.steps) = 2
    /\ frame.script.steps[1].fn = "goto"
    /\ frame.script.steps[2].fn = "waitForSelector"
    /\ executed = 2
    /\ pc = "done"

\* C4: the statement compiled for a line waits for (navigates to) the whole
\* remainder of the line after the verb and its whitespace.
C4_WholeArgument ==
    frame.compiled =>
       LET ls == NonEmptyLines(blocks[cur].value)
       IN  \A i \in 1..Len(ls) :
              (i <= Len(frame.script.steps) /\ Argument(ls[i]) # <<>>) =>
                 frame.script.steps[i].arg = js(Argument(ls[i]))

\* C5: the screenshot is taken only with every image loaded, an image that
\* failed means the program is rejected, and the program always ends: when
\* nothing more can happen it has captured or was rejected.
C5_CaptureOrReject ==
    /\ outcome = "captured" => \A i \in DOMAIN imgs : imgs[i] = "loaded"
    /\ (ipc = "exited" /\ \E i \in DOMAIN imgs : imgs[i] = "failed") => outcome = "rejected"
    /\ ~ENABLED ImgNext => outcome \in {"captured", "rejected"}

\* the safety half of C5 alone, which the program keeps: page.screenshot runs
\* only with every image loaded, and never after an image's rejection
CapturedOnlyWhenLoaded ==
    /\ outcome = "captured" => \A i \in DOMAIN imgs : imgs[i] = "loaded"
    /\ (ipc = "exited" /\ \E i \in DOMAIN imgs : imgs[i] = "failed") => outcome = "rejected"

\* <base> of a filename <base>.png
Base(filename) == SubSeq(filename, 1, Len(filename) - Len(PNG))

\* C6: a retina screenshot of filename <base>.png is written to and referenced
\* as <base>@2x.png, with device pixel ratio 2 and an html node of the halved,
\* floored pixel size; a non-retina one keeps its filename, has ratio 1 and an
\* image node of url /screenshots/<namespace>/<filename> and the given alt.
C6_RetinaNaming ==
    (pc = "done" /\ Len(nodes) = 1) =>
       LET b == blocks[1]
           node == nodes[1]
           ns == frame.namespace
       IN  IF b.retina
           THEN LET name == Base(b.filename) \o AT2X_PNG
                IN  /\ frame.filename = name
                    /\ \E f \in files : f.path = frame.dir \o <<"/">> \o name
                    /\ frame.script.viewport.deviceScaleFactor = 2
                    /\ node.type = "html"
                    /\ node.src = <<QUOT>> \o Src(ns, name) \o <<QUOT>>
                    /\ node.width = <<QUOT>> \o NumToString(frame.size.width \div 2) \o <<QUOT>>
                    /\ node.height = <<QUOT>> \o NumToString(frame.size.height \div 2) \o <<QUOT>>
           ELSE /\ frame.filename = b.filename
                /\ frame.script.viewport.deviceScaleFactor = 1
                /\ node.type = "image"
                /\ node.url = Src(ns, b.filename)
                /\ node.alt = b.alt

\* what the claim has attr() make of one character
Escaped(c) ==
    CASE c = "<"  -> <<"&", "l", "t", ";">>
      [] c = ">"  -> <<"&", "g", "t", ";">>
      [] c = QUOT -> <<"&", "q", "u", "o", "t", ";">>
      [] OTHER    -> <<c>>

\* C7: attr() replaces every <, > and " by its entity, alters nothing else
\* and never raises (the value is returned between its two quotes).
C7_AttrEscapes ==
    attrOut.state \notin {"none", "idle"} =>
       /\ attrOut.state = "returned"
       /\ attrOut.val =
             <<QUOT>> \o Concat([i \in 1..Len(attrIn) |-> Escaped(attrIn[i])]) \o <<QUOT>>

\* C8: when screenshot() fails for an unrecognized verb, this block has not
\* created the output directory.
C8_UnknownVerbNoDirectory ==
    (pc = "aborted" /\ err = "Unknown action") => dirs = {}

\* C9: when a screenshot block aborts, no image file written by it is left
\* at the artifact path.
C9_NoFileLeftOnAbort ==
    pc = "aborted" => ~\E f \in files : f.by = cur

\* C10: blocks of documents with different basenames get different artifact
\* paths.
C10_NoCollision ==
    \A i, j \in DOMAIN paths :
       (i # j /\ blocks[i].basename # blocks[j].basename) => paths[i] # paths[j]

\* C6 for the filenames without a directory part, which the program keeps
RetinaNamingOfPlainFilename ==
    FirstIndex(blocks[1].filename, {"/"}, 1) > Len(blocks[1].filename) => C6_RetinaNaming

=============================================================================
